---- MODULE Spec2Model ----
(***************************************************************************)
(* Model of lib/index.js of h5.bluetooth.hci.inode: the iNode              *)
(* manufacturer-specific-data (MSD) decoder.                               *)
(*                                                                         *)
(* A Buffer is a sequence of bytes (0..255); JavaScript's 0-based index i  *)
(* is position i + 1 of the sequence.  A decoded record (msd) is a         *)
(* function from property names to values, so that the set of properties   *)
(* an object carries is its DOMAIN.  A number produced by the division     *)
(* n / d is kept as the pair [num |-> n, den |-> d]: IEEE-754 division is  *)
(* a function of its two operands, and for one divisor two quotients are   *)
(* equal exactly when the dividends are.                                   *)
(***************************************************************************)
EXTENDS Integers, Sequences, FiniteSets, TLC

VARIABLES
  buffer,     \* the Buffer the caller passes
  msd,        \* the caller's record object (NoRecord: none is passed)
  registry,   \* eirDataTypeDecoders[EirDataType.ManufacturerSpecificData]
  op,         \* the last operation called
  before,     \* the caller's record as it was when the last operation was called
  ret,        \* what the last operation returned (NoRecord: nothing)
  err,        \* what the last operation threw (NoError: nothing)
  navRuns,    \* how often the last call ran msdDecoders[DeviceModel.Nav]
  fallbacks,  \* the last call's invocations of an originalDecoder, in order:
              \* the decoder invoked and the arguments it was given
  offsets,    \* batteryI and extendedI of the last decodeAlarms call
  prev        \* buffer, outcome and operation of the call before the last one

vars == <<buffer, msd, registry, op, before, ret, err, navRuns, fallbacks,
          offsets, prev>>

----------------------------------------------------------------------------
(* Bounds of the model *)

\* The longest buffer passed to a decoder (the Nav layout takes 14 bytes).
MaxLen == 16

\* How often registerManufacturerSpecificDataDecoder is called on the registry.
MaxRegistrations == 3

----------------------------------------------------------------------------
(* JavaScript values *)

\* The value of buffer[i] for an index outside the buffer (undefined); no byte.
Undefined == -1

\* The sentinel offset of decodeAlarms: the field is absent.
Absent == -1

\* DeviceModel.Nav (0x89)
Nav == 137

\* EirDataType.ManufacturerSpecificData (0xFF), of h5.bluetooth.hci
ManufacturerSpecificData == 255

\* No record object: the msd argument left out, or nothing returned.
NoRecord == [k \in {"undefined"} |-> TRUE]

NoError == [kind |-> "none", model |-> Undefined]

\* new Error(`Cannot decode iNode MSD: '${deviceModel}' is not a valid device model!`)
UnknownDeviceModel(deviceModel) == [kind |-> "UnknownDeviceModel", model |-> deviceModel]

\* The RangeError of Buffer's read*16LE for an offset beyond the buffer
RangeError == [kind |-> "RangeError", model |-> Undefined]

\* The TypeError of an assignment to a property of undefined
TypeError == [kind |-> "TypeError", model |-> Undefined]

\* buffer[i]
At(buf, i) == IF i >= 0 /\ i < Len(buf) THEN buf[i + 1] ELSE Undefined

\* ToInt32 of an operand of <<, & and |: undefined becomes 0
ToInt32(v) == IF v = Undefined THEN 0 ELSE v

RECURSIVE BitAnd(_, _)
\* a & b, of non-negative operands
BitAnd(a, b) ==
  IF a = 0 \/ b = 0 THEN 0
  ELSE (a % 2) * (b % 2) + 2 * BitAnd(a \div 2, b \div 2)

RECURSIVE BitOr(_, _)
\* a | b, of non-negative operands
BitOr(a, b) ==
  IF a = 0 THEN b
  ELSE IF b = 0 THEN a
  ELSE (IF a % 2 = 1 \/ b % 2 = 1 THEN 1 ELSE 0) + 2 * BitOr(a \div 2, b \div 2)

\* a << n; the operand is a byte (at most 255) and n is 13, so that the
\* result stays below 2^31 and the 32-bit shift does not wrap
ShiftLeft(a, n) == a * (2 ^ n)

\* !!v of a number
Truthy(v) == v # 0

\* Whether Buffer's bounds check lets `width` bytes be read at `offset`
CanRead(buf, offset, width) == offset >= 0 /\ offset + width <= Len(buf)

\* Mutant of ReadUInt16LE: the two bytes read in big-endian order
ReadUInt16LE_BigEndian(buf, offset) == 256 * buf[offset + 1] + buf[offset + 2]

\* buffer.readUInt16LE(offset), the bounds check passed
ReadUInt16LE(buf, offset) == buf[offset + 1] + 256 * buf[offset + 2]

\* buffer.readInt16LE(offset), the bounds check passed
ReadInt16LE(buf, offset) ==
  LET u == ReadUInt16LE(buf, offset)
  IN IF u >= 32768 THEN u - 65536 ELSE u

\* n / d
Divide(n, d) == [num |-> n, den |-> d]

\* msd[key] = value
SetField(m, key, value) ==
  [k \in (DOMAIN m) \cup {key} |-> IF k = key THEN value ELSE m[k]]

\* The outcome of a decoder: the record as it leaves it, and what it threw
Done(m) == [msd |-> m, err |-> NoError]
Throw(m, e) == [msd |-> m, err |-> e]
Failed(r) == r.err.kind # "none"

----------------------------------------------------------------------------
(* The field decoders *)

decodeAccelerometer(buf, m) ==
  IF ~(CanRead(buf, 2, 2) /\ CanRead(buf, 4, 2) /\ CanRead(buf, 6, 2))
  THEN Throw(m, RangeError)
  ELSE Done(SetField(m, "position",
              [x |-> Divide(ReadInt16LE(buf, 2), 16000),
               y |-> Divide(ReadInt16LE(buf, 4), 16000),
               z |-> Divide(ReadInt16LE(buf, 6), 16000)]))

decodeMagneticField(buf, m) ==
  IF ~(CanRead(buf, 8, 2) /\ CanRead(buf, 10, 2) /\ CanRead(buf, 12, 2))
  THEN Throw(m, RangeError)
  ELSE Done(SetField(m, "magneticField",
              [x |-> Divide(ReadInt16LE(buf, 8), 10000),
               y |-> Divide(ReadInt16LE(buf, 10), 10000),
               z |-> Divide(ReadInt16LE(buf, 12), 10000)]))

decodeRtto(buf, i, m) ==
  Done(SetField(m, "rtto", Truthy(BitAnd(ToInt32(At(buf, i)), 2))))

\* Mutant of BatteryBits: the byte shifted by 14, which takes bit 0x02 to 0x8000
BatteryBits_Shift14(buf, batteryI) ==
  BitAnd(ShiftLeft(IF batteryI = Absent THEN 0 ELSE ToInt32(At(buf, batteryI)), 14),
         32768)

\* const battery = ((batteryI === -1 ? 0 : buffer[batteryI]) << 13) & 0x8000
BatteryBits(buf, batteryI) ==
  BitAnd(ShiftLeft(IF batteryI = Absent THEN 0 ELSE ToInt32(At(buf, batteryI)), 13),
         32768)

\* The flags Object.assign adds to msd.alarms when extendedI is given
ExtendedFlags(alarms) ==
  [moveAccelerometer        |-> Truthy(BitAnd(alarms, 1)),
   levelAccelerometer       |-> Truthy(BitAnd(alarms, 2)),
   levelTemperature         |-> Truthy(BitAnd(alarms, 4)),
   levelHumidity            |-> Truthy(BitAnd(alarms, 8)),
   contactChange            |-> Truthy(BitAnd(alarms, 16)),
   moveStopped              |-> Truthy(BitAnd(alarms, 32)),
   moveGTimer               |-> Truthy(BitAnd(alarms, 64)),
   levelAccelerometerChange |-> Truthy(BitAnd(alarms, 128)),
   levelMagnetChange        |-> Truthy(BitAnd(alarms, 256)),
   levelMagnetTimer         |-> Truthy(BitAnd(alarms, 512))]

\* Mutant of decodeAlarms: the flags assigned into the alarms object the
\* record already has, instead of into a new one
decodeAlarms_IntoExisting(buf, batteryI, extendedI, m) ==
  IF extendedI # Absent /\ ~CanRead(buf, extendedI, 2)
  THEN Throw(m, RangeError)
  ELSE
    LET battery  == BatteryBits(buf, batteryI)
        extended == IF extendedI = Absent THEN 0 ELSE ReadUInt16LE(buf, extendedI)
        alarms   == BitOr(extended, battery)
        low      == [lowBattery |-> Truthy(BitAnd(alarms, 32768))]
        old      == IF "alarms" \in DOMAIN m THEN m["alarms"] ELSE << >>
    IN Done(SetField(m, "alarms",
              IF extendedI # Absent THEN ExtendedFlags(alarms) @@ low @@ old
              ELSE low @@ old))

decodeAlarms(buf, batteryI, extendedI, m) ==
  IF extendedI # Absent /\ ~CanRead(buf, extendedI, 2)
  THEN Throw(m, RangeError)
  ELSE
    LET battery  == BatteryBits(buf, batteryI)
        extended == IF extendedI = Absent THEN 0 ELSE ReadUInt16LE(buf, extendedI)
        alarms   == BitOr(extended, battery)
        low      == [lowBattery |-> Truthy(BitAnd(alarms, 32768))]
    IN Done(SetField(m, "alarms",
              IF extendedI # Absent THEN ExtendedFlags(alarms) @@ low ELSE low))

----------------------------------------------------------------------------
(* The model registry and the two entry points *)

\* The keys of exports.msdDecoders
msdDecoders == {Nav}

\* Mutant of NavDecoder: the battery byte read at offset 14, after the
\* magnetic field, instead of at offset 0
NavDecoder_BatteryAt14(buf, m) ==
  IF m = NoRecord THEN Throw(m, TypeError)
  ELSE
    LET m1 == SetField(SetField(m, "model", Nav), "modelLabel", "iNode Nav")
        r2 == decodeAccelerometer(buf, m1)
        r3 == IF Failed(r2) THEN r2 ELSE decodeMagneticField(buf, r2.msd)
        r4 == IF Failed(r3) THEN r3 ELSE decodeRtto(buf, 0, r3.msd)
    IN IF Failed(r4) THEN r4 ELSE decodeAlarms(buf, 14, Absent, r4.msd)

\* msdDecoders[DeviceModel.Nav]
NavDecoder(buf, m) ==
  IF m = NoRecord THEN Throw(m, TypeError)
  ELSE
    LET m1 == SetField(SetField(m, "model", Nav), "modelLabel", "iNode Nav")
        r2 == decodeAccelerometer(buf, m1)
        r3 == IF Failed(r2) THEN r2 ELSE decodeMagneticField(buf, r2.msd)
        r4 == IF Failed(r3) THEN r3 ELSE decodeRtto(buf, 0, r3.msd)
    IN IF Failed(r4) THEN r4 ELSE decodeAlarms(buf, 0, Absent, r4.msd)

\* The record decodeMsd creates when none is passed
NewRecord(buf) ==
  [type              |-> ManufacturerSpecificData,
   typeLabel         |-> "ManufacturerSpecificData",
   companyIdentifier |-> ReadUInt16LE(buf, 0)]

\* Mutant of decodeMsd: no check that the device model is registered
decodeMsd_NoModelCheck(buf, m) ==
  IF m = NoRecord /\ ~CanRead(buf, 0, 2)
  THEN [arg |-> m, ret |-> NoRecord, err |-> RangeError]
  ELSE
    LET r == NavDecoder(buf, IF m = NoRecord THEN NewRecord(buf) ELSE m)
    IN [arg |-> IF m = NoRecord THEN m ELSE r.msd,
        ret |-> IF Failed(r) THEN NoRecord ELSE r.msd,
        err |-> r.err]

\* Mutant of decodeMsd: the device model read at offset 2, after a
\* two-byte company identifier
decodeMsd_ModelAtOffset2(buf, m) ==
  LET deviceModel == At(buf, 2)
  IN IF deviceModel \notin msdDecoders
     THEN [arg |-> m, ret |-> NoRecord, err |-> UnknownDeviceModel(deviceModel)]
     ELSE IF m = NoRecord /\ ~CanRead(buf, 0, 2)
     THEN [arg |-> m, ret |-> NoRecord, err |-> RangeError]
     ELSE
       LET r == NavDecoder(buf, IF m = NoRecord THEN NewRecord(buf) ELSE m)
       IN [arg |-> IF m = NoRecord THEN m ELSE r.msd,
           ret |-> IF Failed(r) THEN NoRecord ELSE r.msd,
           err |-> r.err]

\* Mutant of decodeMsd: the company identifier set on a record the caller
\* passed, too
decodeMsd_AlwaysSetsCompany(buf, m) ==
  LET deviceModel == At(buf, 1)
  IN IF deviceModel \notin msdDecoders
     THEN [arg |-> m, ret |-> NoRecord, err |-> UnknownDeviceModel(deviceModel)]
     ELSE IF ~CanRead(buf, 0, 2)
     THEN [arg |-> m, ret |-> NoRecord, err |-> RangeError]
     ELSE
       LET r == NavDecoder(buf,
                  IF m = NoRecord THEN NewRecord(buf)
                  ELSE SetField(m, "companyIdentifier", ReadUInt16LE(buf, 0)))
       IN [arg |-> IF m = NoRecord THEN m ELSE r.msd,
           ret |-> IF Failed(r) THEN NoRecord ELSE r.msd,
           err |-> r.err]

\* exports.decodeMsd: arg is the caller's record after the call, ret the
\* record returned, err what was thrown
decodeMsd(buf, m) ==
  LET deviceModel == At(buf, 1)
  IN IF deviceModel \notin msdDecoders
     THEN [arg |-> m, ret |-> NoRecord, err |-> UnknownDeviceModel(deviceModel)]
     ELSE IF m = NoRecord /\ ~CanRead(buf, 0, 2)
     THEN [arg |-> m, ret |-> NoRecord, err |-> RangeError]
     ELSE
       LET r == NavDecoder(buf, IF m = NoRecord THEN NewRecord(buf) ELSE m)
       IN [arg |-> IF m = NoRecord THEN m ELSE r.msd,
           ret |-> IF Failed(r) THEN NoRecord ELSE r.msd,
           err |-> r.err]

\* The values the registry entry takes: nothing, a decoder installed by
\* someone else, or the function registerManufacturerSpecificDataDecoder
\* installs, which closes over the entry it replaced
NoDecoder == [kind |-> "none"]
ForeignDecoder == [kind |-> "foreign"]
Hook(originalDecoder) == [kind |-> "hook", originalDecoder |-> originalDecoder]

\* How many hooks are stacked in a registry entry
RECURSIVE Depth(_)
Depth(decoder) ==
  IF decoder.kind = "hook" THEN 1 + Depth(decoder.originalDecoder) ELSE 0

\* The entry that was in the registry before the first registration
RECURSIVE Innermost(_)
Innermost(decoder) ==
  IF decoder.kind = "hook" THEN Innermost(decoder.originalDecoder) ELSE decoder

\* originalDecoder(buffer, msd): the call, as the log keeps it
FallbackCall(decoder, buf, m) == [decoder |-> decoder, buffer |-> buf, msd |-> m]

\* Mutant of Invoke: an unknown device model thrown, as decodeMsd does,
\* instead of handed to the original decoder
Invoke_ThrowsOnUnknown(decoder, buf, m) ==
  LET deviceModel == At(buf, 1)
  IN IF deviceModel \in msdDecoders
     THEN LET r == NavDecoder(buf, m)
          IN [msd |-> r.msd, err |-> r.err, nav |-> 1, calls |-> << >>]
     ELSE [msd |-> m, err |-> UnknownDeviceModel(deviceModel), nav |-> 0,
           calls |-> << >>]

\* Mutant of Invoke: the original decoder called first, whatever the model
RECURSIVE Invoke_OriginalFirst(_, _, _)
Invoke_OriginalFirst(decoder, buf, m) ==
  IF decoder.kind = "foreign"
  THEN [msd |-> m, err |-> NoError, nav |-> 0, calls |-> << >>]
  ELSE
    LET deviceModel == At(buf, 1)
        o == IF decoder.originalDecoder.kind # "none"
             THEN LET r == Invoke_OriginalFirst(decoder.originalDecoder, buf, m)
                  IN [r EXCEPT !.calls =
                        <<FallbackCall(decoder.originalDecoder, buf, m)>> \o @]
             ELSE [msd |-> m, err |-> NoError, nav |-> 0, calls |-> << >>]
    IN IF Failed(o) \/ deviceModel \notin msdDecoders THEN o
       ELSE LET r == NavDecoder(buf, o.msd)
            IN [msd |-> r.msd, err |-> r.err, nav |-> o.nav + 1, calls |-> o.calls]

\* A call of a decoder found in the registry: of the function installed at
\* lines 20 to 33, or of the decoder of someone else, which is known by its
\* being called only.  nav counts the runs of the Nav decoder, calls lists
\* the invocations of an originalDecoder.
RECURSIVE Invoke(_, _, _)
Invoke(decoder, buf, m) ==
  IF decoder.kind = "foreign"
  THEN [msd |-> m, err |-> NoError, nav |-> 0, calls |-> << >>]
  ELSE
    LET deviceModel == At(buf, 1)
    IN IF deviceModel \in msdDecoders
       THEN LET r == NavDecoder(buf, m)
            IN [msd |-> r.msd, err |-> r.err, nav |-> 1, calls |-> << >>]
       ELSE IF decoder.originalDecoder.kind # "none"
       THEN LET r == Invoke(decoder.originalDecoder, buf, m)
            IN [r EXCEPT !.calls =
                  <<FallbackCall(decoder.originalDecoder, buf, m)>> \o @]
       ELSE [msd |-> m, err |-> NoError, nav |-> 0, calls |-> << >>]

----------------------------------------------------------------------------
(* The inputs: buffers and records a caller passes *)

\* Bytes 2 to 13 of a Nav payload: three accelerometer and three magnetic
\* field values.  All zero; (1, -8, 0) and (16, 0, 0); the extreme values.
Bodies ==
  { <<0, 0, 0, 0, 0, 0, 0, 0, 0, 0, 0, 0>>,
    <<1, 0, 248, 255, 0, 0, 16, 0, 0, 0, 0, 0>>,
    <<255, 127, 0, 128, 255, 255, 0, 128, 255, 127, 2, 0>> }

\* The bytes a payload carries after offset 13
Padding(pad) == [i \in 1..(MaxLen - 14) |-> pad]

\* The first n bytes of buf
Take(buf, n) == SubSeq(buf, 1, IF n < Len(buf) THEN n ELSE Len(buf))

\* The buffers of at most MaxLen bytes with byte 0 in b0s and byte 1 in b1s
BuffersOf(b0s, b1s, bodies, pads, lens) ==
  { Take(<<b0, b1>> \o body \o Padding(pad), n) :
      b0 \in b0s, b1 \in b1s, body \in bodies, pad \in pads, n \in lens }

\* [0x4C,0x00,0x89,0x01,0x00,0xF8,0xFF,0x10,0x00,0x00,0x00,0x00,0x00]
ExampleBuffer == <<76, 0, 137, 1, 0, 248, 255, 16, 0, 0, 0, 0, 0>>

\* The same readings laid out as the Nav decoder reads them: the model
\* identifier at offset 1 and six 16-bit values from offset 2 on
ExampleNavBuffer == <<76, 137, 1, 0, 248, 255, 0, 0, 16, 0, 0, 0, 0, 0>>

Buffers ==
  BuffersOf({0, 2, 4, 76}, {Nav, 255}, Bodies, {0, 165}, 0..MaxLen)
    \cup {ExampleBuffer}

\* An object without properties
EmptyRecord == << >>

\* A record as the host's advertisement parser creates it
HostRecord ==
  [type              |-> ManufacturerSpecificData,
   typeLabel         |-> "ManufacturerSpecificData",
   companyIdentifier |-> 4660]

\* A record that was decoded before, by a decoder of another model that
\* reads the extended alarm word (INodeNav, lines 162 to 197)
StaleRecord ==
  [type              |-> ManufacturerSpecificData,
   companyIdentifier |-> 4660,
   model             |-> 144,
   modelLabel        |-> "iNode Care Sensor",
   rtto              |-> TRUE,
   alarms            |-> ExtendedFlags(1023) @@ [lowBattery |-> TRUE],
   position          |-> [x |-> Divide(5, 16000), y |-> Divide(6, 16000),
                          z |-> Divide(7, 16000)],
   magneticField     |-> [x |-> Divide(5, 10000), y |-> Divide(6, 10000),
                          z |-> Divide(7, 10000)],
   temperature       |-> 21]

Records == {EmptyRecord, HostRecord, StaleRecord}

----------------------------------------------------------------------------
(* The state machine *)

NoCall == [op |-> "none", buffer |-> << >>, ret |-> NoRecord, err |-> NoError]

InitWith(buffers, records, decoders) ==
  /\ buffer \in buffers
  /\ msd \in records
  /\ registry \in decoders
  /\ op = "none"
  /\ before = msd
  /\ ret = NoRecord
  /\ err = NoError
  /\ navRuns = 0
  /\ fallbacks = << >>
  /\ offsets = [batteryI |-> Absent, extendedI |-> Absent]
  /\ prev = NoCall

Init == InitWith(Buffers, Records \cup {NoRecord}, {NoDecoder, ForeignDecoder})

\* exports.decodeMsd(buffer, msd), or exports.decodeMsd(buffer) when the
\* caller has no record
DecodeMsd ==
  LET r == decodeMsd(buffer, msd)
  IN /\ op' = "decodeMsd"
     /\ before' = msd
     /\ msd' = r.arg
     /\ ret' = r.ret
     /\ err' = r.err
     /\ navRuns' = 0
     /\ fallbacks' = << >>
     /\ UNCHANGED <<buffer, registry, offsets, prev>>

\* exports.registerManufacturerSpecificDataDecoder(eirDataTypeDecoders)
Register ==
  /\ Depth(registry) < MaxRegistrations
  /\ registry' = Hook(registry)
  /\ op' = "register"
  /\ UNCHANGED <<buffer, msd, before, ret, err, navRuns, fallbacks,
                 offsets, prev>>

\* The host calls eirDataTypeDecoders[ManufacturerSpecificData](buffer, msd),
\* the function a registration installed
InvokeInstalled ==
  /\ registry.kind = "hook"
  /\ LET r == Invoke(registry, buffer, msd)
     IN /\ op' = "hook"
        /\ before' = msd
        /\ msd' = r.msd
        /\ ret' = NoRecord
        /\ err' = r.err
        /\ navRuns' = r.nav
        /\ fallbacks' = r.calls
  /\ UNCHANGED <<buffer, registry, offsets, prev>>

Next == DecodeMsd \/ Register \/ InvokeInstalled

Spec == Init /\ [][Next]_vars

----------------------------------------------------------------------------
(* decodeAlarms called with every battery byte and with both offsets *)

\* The offsets decodeAlarms is called with
AlarmOffsets == {Absent, 0, 1}

\* One byte of every value; two and three bytes with the bits that matter
AlarmBuffers ==
  { <<b>> : b \in 0..255 }
    \cup { <<b, c>> : b \in {0, 2, 4, 128, 255}, c \in {0, 2, 4, 128, 255} }
    \cup { <<b, c, 128>> : b \in {0, 4}, c \in {0, 4} }

InitAlarms == InitWith(AlarmBuffers, {EmptyRecord, StaleRecord}, {NoDecoder})

\* decodeAlarms(buffer, batteryI, extendedI, msd)
DecodeAlarms ==
  \E batteryI \in AlarmOffsets, extendedI \in AlarmOffsets :
    LET r == decodeAlarms(buffer, batteryI, extendedI, msd)
    IN /\ op' = "decodeAlarms"
       /\ offsets' = [batteryI |-> batteryI, extendedI |-> extendedI]
       /\ before' = msd
       /\ msd' = r.msd
       /\ ret' = NoRecord
       /\ err' = r.err
       /\ UNCHANGED <<buffer, registry, navRuns, fallbacks, prev>>

NextAlarms == DecodeAlarms

SpecAlarms == InitAlarms /\ [][NextAlarms]_vars

----------------------------------------------------------------------------
(* decodeMsd called for one buffer after another *)

\* Nav payloads of 12 to MaxLen bytes
PairBuffers ==
  BuffersOf({0, 4}, {Nav},
            { <<0, 0, 0, 0, 0, 0, 0, 0, 0, 0, 0, 0>>,
              <<1, 0, 248, 255, 0, 0, 16, 0, 0, 0, 0, 0>> },
            {0, 165}, 12..MaxLen)

InitPair == InitWith(PairBuffers, {NoRecord, EmptyRecord}, {NoDecoder})

\* The caller turns to the next buffer, keeping what the last call gave
NextBuffer ==
  \E b \in PairBuffers :
    /\ b # buffer
    /\ prev' = [op |-> op, buffer |-> buffer, ret |-> ret, err |-> err]
    /\ buffer' = b
    /\ op' = "none"
    /\ before' = msd
    /\ ret' = NoRecord
    /\ err' = NoError
    /\ UNCHANGED <<msd, registry, navRuns, fallbacks, offsets>>

NextPair == DecodeMsd \/ NextBuffer

SpecPair == InitPair /\ [][NextPair]_vars

----------------------------------------------------------------------------
(* The claims *)

\* Whether bit `mask` (a power of two) of the byte v is set; undefined has none
BitSet(v, mask) == v # Undefined /\ (v \div mask) % 2 = 1

\* The invocations of decoder d among the last call's fallbacks
CallsOf(d) == { i \in DOMAIN fallbacks : fallbacks[i].decoder = d }

\* The fields the Nav pipeline writes
NavFields == {"model", "modelLabel", "position", "magneticField", "rtto", "alarms"}

\* The fields decoded from the payload's readings
ReadingFields == {"position", "magneticField", "rtto", "alarms"}

\* C1: decodeMsd on a buffer whose byte 1 is not 0x89 (or is missing) throws
\* the unknown-device-model error carrying the value of byte 1, returns no
\* record and leaves the caller's record as it was.
C1_UnknownModelFails ==
  (op = "decodeMsd" /\ At(buffer, 1) # Nav) =>
    /\ err = UnknownDeviceModel(At(buffer, 1))
    /\ ret = NoRecord
    /\ msd = before

C1_Witness ==
  /\ op = "decodeMsd"
  /\ At(buffer, 1) = 255
  /\ before = HostRecord
  /\ err.kind = "UnknownDeviceModel"

\* C2: the function a registration installs never throws the
\* unknown-device-model error.  For a payload of a registered model it runs
\* the model's decoder once and invokes no original decoder.  For any other
\* payload it runs no model decoder; if the entry it replaced held a decoder,
\* it invokes that decoder exactly once, with the same buffer and record, and
\* otherwise it invokes nothing and leaves the record as it was.
C2_HookFallsBack ==
  op = "hook" =>
    /\ err.kind # "UnknownDeviceModel"
    /\ IF At(buffer, 1) \in msdDecoders
       THEN navRuns = 1 /\ fallbacks = << >>
       ELSE /\ navRuns = 0
            /\ IF registry.originalDecoder.kind # "none"
               THEN /\ Cardinality(CallsOf(registry.originalDecoder)) = 1
                    /\ fallbacks[1] =
                         FallbackCall(registry.originalDecoder, buffer, before)
               ELSE fallbacks = << >> /\ msd = before /\ err = NoError

C2_Witness ==
  /\ op = "hook"
  /\ At(buffer, 1) = 255
  /\ registry = Hook(ForeignDecoder)
  /\ before = HostRecord
  /\ Len(fallbacks) = 1

\* C3 as amended: decodeMsd without a record fails on the 13-byte example
\* buffer, whose byte 1 is 0x00, with the unknown-device-model error carrying
\* 0; on the 14-byte buffer that carries the same readings in the Nav layout
\* it yields companyIdentifier 0x894C, model 0x89, position (1/16000,
\* -8/16000, 0), magneticField (16/10000, 0, 0), rtto false and lowBattery
\* true (bit 0x04 of byte 0, 0x4C, is set).
C3_ExampleDecodes ==
  /\ (op = "decodeMsd" /\ before = NoRecord /\ buffer = ExampleBuffer) =>
       (err = UnknownDeviceModel(0) /\ ret = NoRecord)
  /\ (op = "decodeMsd" /\ before = NoRecord /\ buffer = ExampleNavBuffer) =>
       /\ err = NoError
       /\ ret.companyIdentifier = 35148
       /\ ret.model = 137
       /\ ret.position = [x |-> Divide(1, 16000), y |-> Divide(-8, 16000),
                          z |-> Divide(0, 16000)]
       /\ ret.magneticField = [x |-> Divide(16, 10000), y |-> Divide(0, 10000),
                               z |-> Divide(0, 10000)]
       /\ ret.rtto = FALSE
       /\ ret.alarms.lowBattery = TRUE

C3_Witness ==
  /\ op = "decodeMsd"
  /\ before = NoRecord
  /\ buffer = ExampleBuffer
  /\ err.kind = "UnknownDeviceModel"

\* C3 as stated: decodeMsd without a record succeeds on the 13-byte example
\* buffer and yields companyIdentifier 0x004C, model 0x89, position
\* (1/16000, -8/16000, 0), magneticField (16/10000, 0, 0), rtto false and
\* lowBattery false.
C3_Original ==
  (op = "decodeMsd" /\ before = NoRecord /\ buffer = ExampleBuffer) =>
    /\ err = NoError
    /\ ret # NoRecord
    /\ ret.companyIdentifier = 76
    /\ ret.model = 137
    /\ ret.position = [x |-> Divide(1, 16000), y |-> Divide(-8, 16000),
                       z |-> Divide(0, 16000)]
    /\ ret.magneticField = [x |-> Divide(16, 10000), y |-> Divide(0, 10000),
                            z |-> Divide(0, 10000)]
    /\ ret.rtto = FALSE
    /\ ret.alarms.lowBattery = FALSE

\* C4 as amended: after decodeAlarms with a battery offset, lowBattery is set
\* exactly when bit 0x04 of the battery byte is set or, with an extended
\* offset, bit 0x8000 of the extended word is; with the extended offset
\* absent, as for Nav, bit 0x04 of the battery byte alone decides it.
C4_LowBatteryFromBit04 ==
  (op = "decodeAlarms" /\ offsets.batteryI # Absent /\ err = NoError) =>
    (msd.alarms.lowBattery <=>
       \/ BitSet(At(buffer, offsets.batteryI), 4)
       \/ /\ offsets.extendedI # Absent
          /\ BitSet(At(buffer, offsets.extendedI + 1), 128))

C4_Witness ==
  /\ op = "decodeAlarms"
  /\ offsets = [batteryI |-> 0, extendedI |-> Absent]
  /\ buffer = <<4>>
  /\ err = NoError
  /\ msd.alarms.lowBattery

\* C4 as stated: after decodeAlarms with a battery offset, lowBattery is set
\* exactly when bit 0x02 of the battery byte is set.
C4_Original ==
  (op = "decodeAlarms" /\ offsets.batteryI # Absent /\ err = NoError) =>
    (msd.alarms.lowBattery <=> BitSet(At(buffer, offsets.batteryI), 2))

\* C5: when a Nav payload is shorter than 14 bytes, decoding into a record
\* the caller passed (by decodeMsd or by the installed function) fails with
\* a bounds error and leaves that record as it was.
C5_NoPartialRecord ==
  ( /\ op \in {"decodeMsd", "hook"}
    /\ At(buffer, 1) = Nav
    /\ Len(buffer) < 14
    /\ before # NoRecord ) =>
    (err = RangeError /\ msd = before)

\* C6: two successful decodeMsd calls, one after the other, on buffers that
\* agree on the bytes at offsets 0 to 13 yield the same position,
\* magneticField, rtto and alarms, whatever follows offset 13 and however
\* long the buffers are.
C6_OutsideBytesIgnored ==
  ( /\ prev.op = "decodeMsd" /\ prev.err = NoError
    /\ op = "decodeMsd" /\ err = NoError
    /\ \A i \in 0..13 : At(prev.buffer, i) = At(buffer, i) ) =>
    \A f \in ReadingFields : prev.ret[f] = ret[f]

C6_Witness ==
  /\ prev.op = "decodeMsd" /\ prev.err = NoError
  /\ op = "decodeMsd" /\ err = NoError
  /\ \A i \in 0..13 : At(prev.buffer, i) = At(buffer, i)
  /\ Len(prev.buffer) = 14
  /\ Len(buffer) > 14
  /\ At(buffer, 14) = 165

C8_WritesOnlyNavFields ==
  (op = "decodeMsd" /\ err = NoError /\ before # NoRecord) =>
    /\ ret = msd
    /\ DOMAIN msd = (DOMAIN before) \cup NavFields
    /\ \A k \in (DOMAIN before) \ NavFields : msd[k] = before[k]

C8_Witness ==
  /\ op = "decodeMsd"
  /\ err = NoError
  /\ before = StaleRecord
  /\ msd # before
  /\ msd.companyIdentifier = 4660
  /\ At(buffer, 0) + 256 * At(buffer, 1) # 4660

\* C10: a record returned by a successful decodeMsd call made without a
\* record has model equal to byte 1 of the buffer and companyIdentifier equal
\* to byte 0 + 256 * byte 1, so that the high byte of companyIdentifier is
\* the model, 0x89.
C10_CompanyHighByteIsModel ==
  (op = "decodeMsd" /\ err = NoError /\ before = NoRecord) =>
    /\ ret.model = At(buffer, 1)
    /\ ret.companyIdentifier = At(buffer, 0) + 256 * At(buffer, 1)
    /\ ret.companyIdentifier \div 256 = ret.model
    /\ ret.model = 137

C10_Witness ==
  /\ op = "decodeMsd"
  /\ err = NoError
  /\ before = NoRecord
  /\ ret.companyIdentifier % 256 = 76
  /\ ret.companyIdentifier \div 256 = 137

\* C9: after one or more registrations on the same registry, one call of the
\* installed entry runs the Nav decoder exactly once and the decoder that was
\* there before the first registration not at all for a payload with byte 1
\* = 0x89; for any other payload it runs the Nav decoder not at all and that
\* first decoder exactly once, or nothing if there was none.
C9_ChainReachesOriginalOnce ==
  (op = "hook" /\ Depth(registry) >= 1) =>
    IF At(buffer, 1) = Nav
    THEN navRuns = 1 /\ CallsOf(ForeignDecoder) = {}
    ELSE /\ navRuns = 0
         /\ Cardinality(CallsOf(ForeignDecoder)) =
              (IF Innermost(registry) = ForeignDecoder THEN 1 ELSE 0)
         /\ Innermost(registry) = NoDecoder => msd = before

C9_Witness ==
  /\ op = "hook"
  /\ Depth(registry) >= 2
  /\ Innermost(registry) = ForeignDecoder
  /\ At(buffer, 1) = 255
  /\ Cardinality(CallsOf(ForeignDecoder)) = 1
  /\ Len(fallbacks) = Depth(registry)

====
